---- MODULE Spec2Model ----
(***************************************************************************)
(* Conversation session cache and inference proxy of prompt-portal's       *)
(* backend_cpp: LLMClient and SessionManager (src/llm_client.cpp).         *)
(*                                                                         *)
(* Request threads call process_message / process_message_stream; each     *)
(* call is: locked phase A (get-or-create, append the user message, trim,  *)
(* copy), the unlocked backend call, locked phase B (append the reply if   *)
(* the session is still in the map).  clear_session and                    *)
(* get_session_history run wholly under sessions_mutex_.                   *)
(*                                                                         *)
(* Session::created_at and Session::last_access are written and never      *)
(* read by any operation; they are left out of the state.                  *)
(***************************************************************************)
EXTENDS Integers, Sequences, FiniteSets, TLC

\* ------------------------------------------------------------------ bounds
MaxCalls == 2          \* calls started in one concurrent run (Spec)
MaxHistory == 1        \* max_history_messages_ ranges over 0..MaxHistory
MaxHistoryWide == 2    \* the same range in SpecTrim and SpecSeq
MaxTail == 5           \* longest non-system tail of a stored dialog (SpecTrim)
MaxTurns == 10         \* calls started in one sequential run (SpecSeq)

Threads == {"t1", "t2"}
SessionIds == {"A", "B"}
SystemPrompts == {"P", "Q"}
\* The k-th request of a run carries the k-th text, so that every user
\* message in a dialog names the call that appended it.
UserMessageOf ==
    <<"u1", "u2", "u3", "u4", "u5", "u6", "u7", "u8", "u9", "u10", "u11", "u12">>
UserMessages == {UserMessageOf[i] : i \in DOMAIN UserMessageOf}
NoThread == "none"

\* What locking the non-recursive std::mutex again in its owner does on the
\* platform (undefined behaviour, [thread.mutex.requirements.mutex]): the
\* thread blocks for ever, lock() throws std::system_error, or the lock
\* goes through as if the mutex were recursive.
RelockOutcomes == {"deadlock", "system_error", "proceed"}

\* What the upstream server does with one POST /v1/chat/completions.
UpstreamReplies ==
    { [kind |-> "content", content |-> "R"],
      [kind |-> "content", content |-> "a longer reply"],
      [kind |-> "unreachable", content |-> ""] }

chunk_size == 10

VARIABLES
    max_history_messages_,  \* SessionManager::max_history_messages_
    relock,                 \* what a relock of sessions_mutex_ does on this platform
    sessions_,              \* SessionManager::sessions_: id -> Session (DOMAIN = keys)
    sessions_mutex_,        \* owner of SessionManager::sessions_mutex_, or NoThread
    pc,                     \* per thread: position in process_message(_stream)
    call,                   \* per thread: arguments of the call in progress
    messages,               \* per thread: the local copy `messages` of phase A
    response,               \* per thread: `response` / `full_response`
    chunks,                 \* per thread: chunks handed to the caller's on_chunk
    result,                 \* per thread: what the call gave its caller
    ncalls,                 \* calls started so far
    last_op,                \* trim_history / get_session_history / clear_session
                            \* run by the last step
    clearedDuring,          \* per thread: its id was cleared while it was unlocked
    createdSinceClear,      \* ids with a phase A completed since their last clear
    lastAppender,           \* per id: thread whose phase B appended last
    ahead,                  \* per thread: calls whose phase A came just before its own
    recent,                 \* per id: the messages appended last, newest last
    streak,                 \* per id: turns completed with a reply since creation
    available_,             \* LLMClient::available_
    probed,                 \* what the upstream answered to each test_connection
    requests,               \* per thread: http_post calls of the call in progress
    sent,                   \* per thread: the list its backend call was given
    held,                   \* the optional a get_session_history caller kept
    g_llm_client,           \* the instance g_llm_client owns, or nullptr
    g_session_manager,      \* the instance g_session_manager owns, or nullptr
    accessor                \* per thread: position in get_session_manager and
                            \* the instance its last call returned

vars == <<max_history_messages_, relock, sessions_, sessions_mutex_, pc, call,
          messages, response, chunks, result, ncalls, last_op, clearedDuring,
          createdSinceClear, lastAppender, ahead, recent, streak, available_,
          probed, requests, sent, held, g_llm_client, g_session_manager,
          accessor>>

\* ------------------------------------------------------------- data model
ChatMessage(role, content) == [role |-> role, content |-> content]

NoCall == [session_id |-> "", system_prompt |-> "", user_message |-> "",
           stream |-> FALSE]
NoResult == [kind |-> "none", value |-> ""]
nullopt == [has_value |-> FALSE, value |-> <<>>]
optional(v) == [has_value |-> TRUE, value |-> v]
NoOp == [op |-> "none", session_id |-> "", dialog |-> <<>>, has_value |-> FALSE]

Last(s) == s[Len(s)]
LastN(s, n) == IF Len(s) <= n THEN s ELSE SubSeq(s, Len(s) - n + 1, Len(s))

\* ------------------------------------------------------- pure operations
\* Mutant: a call on a stored id writes its own system prompt over dialog[0].
get_or_create_session_reseeds(sess, session_id, system_prompt) ==
    [k \in DOMAIN sess \cup {session_id} |->
        IF k = session_id
        THEN [dialog |-> <<ChatMessage("system", system_prompt)>> \o
                         (IF k \in DOMAIN sess THEN Tail(sess[k].dialog) ELSE <<>>),
              message_count |-> IF k \in DOMAIN sess
                                THEN sess[k].message_count ELSE 0]
        ELSE sess[k]]

\* Mutant: the insert path leaves the dialog of the new session empty.
get_or_create_session_unseeded(sess, session_id, system_prompt) ==
    IF session_id \in DOMAIN sess
    THEN sess
    ELSE [k \in DOMAIN sess \cup {session_id} |->
            IF k = session_id
            THEN [dialog |-> <<>>, message_count |-> 0]
            ELSE sess[k]]

\* get_or_create_session, lines 298-314: the map after the call.
get_or_create_session(sess, session_id, system_prompt) ==
    IF session_id \in DOMAIN sess
    THEN sess
    ELSE [k \in DOMAIN sess \cup {session_id} |->
            IF k = session_id
            THEN [dialog |-> <<ChatMessage("system", system_prompt)>>,
                  message_count |-> 0]
            ELSE sess[k]]

\* Mutant: the suffix cut is taken over the whole dialog, system message
\* included, and nothing is put back in front of it.
trim_history_drops_system(dialog, max_history) ==
    IF Len(dialog) - 1 > max_history * 2
    THEN SubSeq(dialog, Len(dialog) - max_history * 2 + 1, Len(dialog))
    ELSE dialog

\* Mutant: start is one too small, so one entry too many is kept.
trim_history_keeps_one_more(dialog, max_history) ==
    IF Len(dialog) - 1 > max_history * 2
    THEN <<dialog[1]>> \o SubSeq(dialog, Len(dialog) - max_history * 2, Len(dialog))
    ELSE dialog

\* Mutant: the oldest entries are kept instead of the newest.
trim_history_keeps_oldest(dialog, max_history) ==
    IF Len(dialog) - 1 > max_history * 2
    THEN SubSeq(dialog, 1, max_history * 2 + 1)
    ELSE dialog

\* Mutant: nothing is ever cut.
trim_history_never(dialog, max_history) == dialog

\* trim_history: dialog.size() > 1, non_system > max_keep, then dialog[0]
\* followed by dialog[start .. size-1] (0-based), start = size - max_keep.
trim_history(dialog, max_history) ==
    IF Len(dialog) > 1
    THEN LET non_system == Len(dialog) - 1
             max_keep == max_history * 2
             start == Len(dialog) - max_keep
         IN  IF non_system > max_keep
             THEN <<dialog[1]>> \o SubSeq(dialog, start + 1, Len(dialog))
             ELSE dialog
    ELSE dialog

\* Lines 351-354: the dialog after get-or-create and the push_back of the
\* user message, as it is handed to trim_history.
pushed_dialog(sess, c) ==
    Append(get_or_create_session(sess, c.session_id, c.system_prompt)
               [c.session_id].dialog,
           ChatMessage("user", c.user_message))

\* Phase A body, lines 351-358: the map after get-or-create, push_back,
\* message_count++ and trim_history.
phase_a(sess, c, max_history) ==
    LET s1 == get_or_create_session(sess, c.session_id, c.system_prompt)
    IN  [s1 EXCEPT ![c.session_id] =
            [dialog |-> trim_history(pushed_dialog(sess, c), max_history),
             message_count |-> s1[c.session_id].message_count + 1]]

\* Mutant: the copy is taken before the user message is pushed.
snapshot_before_push(sess, session_id) ==
    SubSeq(sess[session_id].dialog, 1, Len(sess[session_id].dialog) - 1)

\* Line 361: messages = session_ptr->dialog, a copy taken under the lock.
snapshot(sess, session_id) == sess[session_id].dialog

\* Mutant: the lock_guard of phase A lives to the end of the function.
unlock_at_function_end(t) == t

\* The closing brace of line 362 destroys the lock_guard of phase A.
unlock_after_phase_a(t) == NoThread

\* Mutant: phase B reaches the session through operator[], which inserts.
phase_b_inserts(sess, session_id, text) ==
    [k \in DOMAIN sess \cup {session_id} |->
        IF k = session_id
        THEN [dialog |-> Append(IF k \in DOMAIN sess THEN sess[k].dialog ELSE <<>>,
                                ChatMessage("assistant", text)),
              message_count |-> IF k \in DOMAIN sess
                                THEN sess[k].message_count ELSE 0]
        ELSE sess[k]]

\* Mutant: phase B puts the reply in front of the last stored message.
phase_b_reply_before_last(sess, session_id, text) ==
    IF session_id \in DOMAIN sess
    THEN [sess EXCEPT ![session_id].dialog =
            SubSeq(@, 1, Len(@) - 1) \o <<ChatMessage("assistant", text), Last(@)>>]
    ELSE sess

\* Mutant: phase B evicts the session once its reply is known.
phase_b_erases(sess, session_id, text) ==
    [k \in DOMAIN sess \ {session_id} |-> sess[k]]

\* Mutant: phase B stores no reply that is an error marker.
phase_b_drops_error(sess, session_id, text) ==
    IF session_id \in DOMAIN sess /\ (Len(text) < 7 \/ SubSeq(text, 1, 7) # "Error: ")
    THEN [sess EXCEPT ![session_id].dialog =
            Append(@, ChatMessage("assistant", text))]
    ELSE sess

\* Mutant: phase B appends the reply to every stored session.
phase_b_all_sessions(sess, session_id, text) ==
    IF session_id \in DOMAIN sess
    THEN [k \in DOMAIN sess |->
            [sess[k] EXCEPT !.dialog = Append(@, ChatMessage("assistant", text))]]
    ELSE sess

\* Mutant: phase B stores the reply under the role of the caller.
phase_b_as_user(sess, session_id, text) ==
    IF session_id \in DOMAIN sess
    THEN [sess EXCEPT ![session_id].dialog =
            Append(@, ChatMessage("user", text))]
    ELSE sess

\* Phase B body, lines 370-373: find, and push_back of the reply if found.
phase_b(sess, session_id, text) ==
    IF session_id \in DOMAIN sess
    THEN [sess EXCEPT ![session_id].dialog =
            Append(@, ChatMessage("assistant", text))]
    ELSE sess

\* Mutant: clear_session empties the whole map.
clear_session_all(sess, session_id) == [k \in {} |-> 0]

\* clear_session, line 438: sessions_.erase(session_id).
clear_session(sess, session_id) ==
    [k \in DOMAIN sess \ {session_id} |-> sess[k]]

\* Mutant: an absent id is answered with an empty history.
get_session_history_empty(sess, session_id) ==
    IF session_id \in DOMAIN sess
    THEN optional(sess[session_id].dialog)
    ELSE optional(<<>>)

\* get_session_history, lines 429-433.
get_session_history(sess, session_id) ==
    IF session_id \in DOMAIN sess
    THEN optional(sess[session_id].dialog)
    ELSE nullopt

\* LLMHandler::get_session_history: 404 for the absent optional, 200 with
\* the messages otherwise.
history_response(history) ==
    IF ~history.has_value
    THEN [status |-> 404, messages |-> <<>>]
    ELSE [status |-> 200, messages |-> history.value]

\* What the upstream can do with the probe of test_connection, and with any
\* request: no connection, a body that is not JSON, an object without
\* choices, an empty choices list, a choice without message.content, a
\* well-formed completion.
ProbeReplies ==
    { [kind |-> k, content |-> ""] :
        k \in {"unreachable", "not_json", "no_choices", "empty_choices",
               "no_content"} }
    \cup { [kind |-> "content", content |-> "R"] }

\* LLMClient::test_connection, lines 178-199: true when the body parses and
\* json.contains("choices"); false on any exception and otherwise.
test_connection(probe) ==
    probe.kind \in {"empty_choices", "no_content", "content"}

\* The constructor, lines 157-176: one probe sets available_.
Constructed(probes) ==
    \E p \in probes :
        /\ probed = <<p>>
        /\ available_ = test_connection(p)

\* Mutant: generate asks the upstream again when the first request fails.
http_posts_retry(reply) == IF reply.kind = "content" THEN 1 ELSE 2

\* generate, line 236: the one http_post of a call, whatever comes back.
http_posts(reply) == 1

\* Mutant: the backend call is given the stored dialog itself, read when
\* the request is built.
backend_messages_by_reference(copy, sess, session_id) ==
    IF session_id \in DOMAIN sess THEN sess[session_id].dialog ELSE <<>>

\* Lines 361 and 365 (403 and 414): `messages = session.dialog` copies the
\* vector into a local under the lock, and that local is what generate /
\* generate_stream is given after the lock is released.
backend_messages(copy, sess, session_id) == copy

\* The unique_ptr that owns nothing.  An instance is named after the thread
\* that constructed it, "main" for the one init_llm_service made.
nullptr == "nullptr"

\* A thread outside get_session_manager that holds no reference.
NoAccess == [pc |-> "idle", ref |-> nullptr]

\* The state main leaves behind at line 43, before the server takes
\* requests: init_llm_service, lines 449-453, has made both instances.
ServiceInitialized ==
    /\ g_llm_client = "main"
    /\ g_session_manager = "main"
    /\ accessor = [t \in Threads |-> NoAccess]

\* An event of the text/event-stream body: a content event carries a
\* chunk, the done event none.
content_event(session_id, chunk) ==
    [done |-> FALSE, content |-> chunk, session_id |-> session_id]
done_event(session_id) ==
    [done |-> TRUE, content |-> "", session_id |-> session_id]

\* Mutant: a failed backend is answered with 503 and no event.
session_chat_stream_response_fails(session_id, cs) ==
    IF cs # <<>> /\ Len(cs[1]) >= 7 /\ SubSeq(cs[1], 1, 7) = "Error: "
    THEN [status |-> 503, events |-> <<>>]
    ELSE [status |-> 200,
          events |-> [i \in 1..(Len(cs) + 1) |->
                        IF i <= Len(cs) THEN content_event(session_id, cs[i])
                        ELSE done_event(session_id)]]

\* LLMHandler::session_chat_stream, lines 254-275, once
\* process_message_stream has returned: the lambda has written one content
\* event per chunk to sse_stream, the done event is written after them and
\* the response is 200 with that body.
session_chat_stream_response(session_id, cs) ==
    [status |-> 200,
     events |-> [i \in 1..(Len(cs) + 1) |->
                   IF i <= Len(cs) THEN content_event(session_id, cs[i])
                   ELSE done_event(session_id)]]

\* What a session chat request can carry: an Authorization header that is
\* missing, one that names no user, or a valid one; a session_id and a
\* message that are empty or not.
Credentials == {"missing", "invalid", "valid"}

Requests(message) ==
    [auth : Credentials, session_id : {"", "A"}, message : {"", message}]

\* Mutant: the handler does not look at the credentials.
rejection_ignores_credentials(req) ==
    IF req.session_id = "" \/ req.message = "" THEN 400 ELSE 0

\* LLMHandler::session_chat, lines 90-108, and session_chat_stream, lines
\* 221-236: 401 when get_current_user gives no user, then 400 when
\* session_id or message is empty; 0 when the handler goes on.
rejection(req) ==
    IF req.auth # "valid" THEN 401
    ELSE IF req.session_id = "" \/ req.message = "" THEN 400
    ELSE 0

\* Mutant: generate records in available_ whether its request succeeded.
available_after_generate_tracks(available, ok) == ok

\* generate, lines 200-252, and generate_stream, lines 254-277: neither
\* assigns available_ nor calls test_connection, so the flag after the call
\* is the flag before it, whether the request succeeded (ok) or not.
available_after_generate(available, ok) == available

\* LLMHandler::health, lines 389-401: 200 "ok" or 503 "unavailable", from
\* is_available() alone.
health(available) ==
    IF available THEN [status |-> 200, body |-> "ok"]
    ELSE [status |-> 503, body |-> "unavailable"]

\* Mutant: generate returns the error text as if it were the content.
generate_swallows(reply) ==
    IF reply.kind = "content"
    THEN [ok |-> TRUE, text |-> reply.content]
    ELSE [ok |-> TRUE, text |-> "LLM generation failed"]

\* LLMClient::generate, lines 230-251, on what the upstream did: the content
\* of the first choice, or the std::runtime_error it throws.
generate(reply) ==
    CASE reply.kind = "content" ->
            [ok |-> TRUE, text |-> reply.content]
      [] reply.kind = "unreachable" ->
            [ok |-> FALSE, text |-> "LLM generation failed: Failed to connect"]
      [] reply.kind = "not_json" ->
            [ok |-> FALSE, text |-> "JSON parse error: syntax error"]
      [] reply.kind = "no_content" ->
            [ok |-> FALSE,
             text |-> "JSON parse error: type must be string, but is null"]
      [] reply.kind = "empty_choices" ->
            [ok |-> FALSE,
             text |-> "LLM generation failed: Invalid response from LLM server"]
      [] reply.kind = "no_choices" ->
            [ok |-> FALSE,
             text |-> "LLM generation failed: Invalid response from LLM server"]

\* What generate throws when it fails, lines 246-251: both catch blocks
\* throw std::runtime_error, the message led by a label.
generate_exception(reply) ==
    [type |-> "std::runtime_error", what |-> generate(reply).text]

\* The label of an error message: its characters up to the first colon.
RECURSIVE label(_, _)
label(text, i) ==
    IF i > Len(text) \/ SubSeq(text, i, i) = ":"
    THEN SubSeq(text, 1, i - 1)
    ELSE label(text, i + 1)

\* LLMHandler::session_chat, lines 131-141: 200 with the response, or the
\* catch of std::runtime_error, 503 with e.what().
session_chat_response(res) ==
    IF res.kind = "error"
    THEN [status |-> 503, detail |-> res.value]
    ELSE [status |-> 200, detail |-> res.value]

\* The loop of generate_stream, lines 268-273: substr(i, chunk_size) for
\* i = 0, chunk_size, ... while i < length.
RECURSIVE slices(_, _)
slices(text, i) ==
    IF i < Len(text)
    THEN <<SubSeq(text, i + 1, IF i + chunk_size < Len(text)
                               THEN i + chunk_size ELSE Len(text))>>
         \o slices(text, i + chunk_size)
    ELSE <<>>

\* Mutant: only the first slice is delivered.
generate_stream_first_chunk(reply) ==
    LET r == generate(reply)
    IN  IF r.ok THEN (IF r.text = "" THEN <<>> ELSE <<Head(slices(r.text, 0))>>)
        ELSE <<"Error: " \o r.text>>

\* Mutant: the response is delivered whole, as one chunk.
generate_stream_whole(reply) ==
    LET r == generate(reply)
    IN  IF r.ok THEN (IF r.text = "" THEN <<>> ELSE <<r.text>>)
        ELSE <<"Error: " \o r.text>>

\* Mutant: a failure of generate ends the stream without a chunk.
generate_stream_silent(reply) ==
    LET r == generate(reply)
    IN  IF r.ok THEN slices(r.text, 0) ELSE <<>>

\* LLMClient::generate_stream, lines 264-276: the chunks given to on_chunk.
generate_stream(reply) ==
    LET r == generate(reply)
    IN  IF r.ok THEN slices(r.text, 0) ELSE <<"Error: " \o r.text>>

\* The collector lambda of process_message_stream, lines 408-411:
\* full_response after the chunks cs.
RECURSIVE collect(_)
collect(cs) == IF cs = <<>> THEN "" ELSE Head(cs) \o collect(Tail(cs))

\* ------------------------------------------------------------------- Init
\* A process after init_llm_service: no session, nobody in a call;
\* max_history_messages_ is whatever the constructor (line 287) was given.
InitWith(histories) ==
    /\ max_history_messages_ \in histories
    /\ relock \in RelockOutcomes
    /\ sessions_ = [k \in {} |-> 0]
    /\ sessions_mutex_ = NoThread
    /\ pc = [t \in Threads |-> "idle"]
    /\ call = [t \in Threads |-> NoCall]
    /\ messages = [t \in Threads |-> <<>>]
    /\ response = [t \in Threads |-> ""]
    /\ chunks = [t \in Threads |-> <<>>]
    /\ result = [t \in Threads |-> NoResult]
    /\ ncalls = 0
    /\ last_op = NoOp
    /\ clearedDuring = [t \in Threads |-> FALSE]
    /\ createdSinceClear = {}
    /\ lastAppender = [s \in SessionIds |-> NoThread]
    /\ ahead = [t \in Threads |-> {}]
    /\ recent = [s \in SessionIds |-> <<>>]
    /\ streak = [s \in SessionIds |-> 0]
    /\ Constructed({[kind |-> "content", content |-> "R"]})
    /\ requests = [t \in Threads |-> 0]
    /\ sent = [t \in Threads |-> <<>>]
    /\ held = nullopt
    /\ ServiceInitialized

Init == InitWith(0..MaxHistory)

\* ---------------------------------------------------------------- actions
InFlight(t, sid) == pc[t] \in {"backend", "lock_b"} /\ call[t].session_id = sid

\* streak of a session on which a turn has ended without the reply of the
\* upstream: generate threw, or generate_stream gave the error chunk.
Broken == -1

broken_by(t, ok) ==
    IF ok \/ clearedDuring[t] THEN streak
    ELSE [streak EXCEPT ![call[t].session_id] = Broken]

\* How many appended messages `recent` remembers.
Window == 2 * max_history_messages_ + 1

\* A request thread enters process_message (st = FALSE) or
\* process_message_stream (st = TRUE), lines 338-347 / 379-389.
Call(t, sid, sp, um, st) ==
    /\ pc[t] = "idle"
    /\ um = UserMessageOf[ncalls + 1]
    /\ ncalls' = ncalls + 1
    /\ call' = [call EXCEPT ![t] = [session_id |-> sid, system_prompt |-> sp,
                                    user_message |-> um, stream |-> st]]
    /\ pc' = [pc EXCEPT ![t] = "lock_a"]
    /\ last_op' = NoOp
    /\ UNCHANGED <<max_history_messages_, relock, sessions_, sessions_mutex_,
                   messages, response, chunks, result, clearedDuring,
                   createdSinceClear, lastAppender, ahead, recent, streak,
                   available_, probed, requests, sent, held,
                   g_llm_client, g_session_manager, accessor>>

\* The lock_guard of phase A, line 350 / 392.
AcquireA(t) ==
    /\ pc[t] = "lock_a"
    /\ sessions_mutex_ = NoThread
    /\ sessions_mutex_' = t
    /\ pc' = [pc EXCEPT ![t] = "phase_a"]
    /\ last_op' = NoOp
    /\ UNCHANGED <<max_history_messages_, relock, sessions_, call, messages,
                   response, chunks, result, ncalls, clearedDuring,
                   createdSinceClear, lastAppender, ahead, recent, streak,
                   available_, probed, requests, sent, held,
                   g_llm_client, g_session_manager, accessor>>

\* Line 351 / 393 calls get_or_create_session, whose line 296 locks
\* sessions_mutex_ again in the thread that owns it.  Where the relock
\* blocks, the thread stays in get_or_create_session for ever, the mutex held.
RelockBlocks(t) ==
    /\ pc[t] = "phase_a"
    /\ sessions_mutex_ = t
    /\ relock = "deadlock"
    /\ pc' = [pc EXCEPT ![t] = "blocked"]
    /\ last_op' = NoOp
    /\ UNCHANGED <<max_history_messages_, relock, sessions_, sessions_mutex_,
                   call, messages, response, chunks, result, ncalls,
                   clearedDuring, createdSinceClear, lastAppender, ahead, recent,
                   streak, available_, probed, requests, sent, held,
                   g_llm_client, g_session_manager, accessor>>

\* Where the relock is detected, line 296 throws std::system_error; the
\* outer lock_guard unlocks during unwinding and the caller gets the error.
RelockThrows(t) ==
    /\ pc[t] = "phase_a"
    /\ sessions_mutex_ = t
    /\ relock = "system_error"
    /\ sessions_mutex_' = NoThread
    /\ result' = [result EXCEPT ![t] =
                    [kind |-> "error", value |-> "resource deadlock would occur"]]
    /\ pc' = [pc EXCEPT ![t] = "return"]
    /\ last_op' = NoOp
    /\ UNCHANGED <<max_history_messages_, relock, sessions_, call, messages,
                   response, chunks, ncalls, clearedDuring, createdSinceClear,
                   lastAppender, ahead, recent, streak,
                   available_, probed, requests, sent, held,
                   g_llm_client, g_session_manager, accessor>>

\* Where the relock goes through: the rest of phase A, lines 351-362 /
\* 393-404, to the release of the lock.
PhaseA(t) ==
    LET sid == call[t].session_id
    IN  /\ pc[t] = "phase_a"
        /\ sessions_mutex_ = t
        /\ relock = "proceed"
        /\ sessions_' = phase_a(sessions_, call[t], max_history_messages_)
        /\ messages' = [messages EXCEPT ![t] = snapshot(sessions_', sid)]
        /\ sessions_mutex_' = unlock_after_phase_a(t)
        /\ pc' = [pc EXCEPT ![t] = "backend"]
        /\ last_op' = [op |-> "trim_history", session_id |-> sid,
                       dialog |-> pushed_dialog(sessions_, call[t]),
                       has_value |-> TRUE]
        /\ clearedDuring' = [clearedDuring EXCEPT ![t] = FALSE]
        /\ createdSinceClear' = createdSinceClear \cup {sid}
        /\ ahead' = [ahead EXCEPT ![t] =
                        {o \in Threads \ {t} :
                            /\ InFlight(o, sid)
                            /\ ~clearedDuring[o]
                            /\ recent[sid] # <<>>
                            /\ Last(recent[sid]) =
                                 ChatMessage("user", call[o].user_message)}]
        /\ recent' = [recent EXCEPT ![sid] =
                        LastN(Append(IF sid \in DOMAIN sessions_ THEN @ ELSE <<>>,
                                     ChatMessage("user", call[t].user_message)),
                              Window)]
        /\ streak' = IF sid \in DOMAIN sessions_ THEN streak
                      ELSE [streak EXCEPT ![sid] = 0]
        /\ UNCHANGED <<max_history_messages_, relock, call, response, chunks,
                       result, ncalls, lastAppender,
                       available_, probed, requests, sent, held,
                       g_llm_client, g_session_manager, accessor>>

\* The backend call of process_message, line 365: client_.generate returns
\* the content, or throws; the exception leaves process_message and phase B
\* is not run.
Generate(t, reply) ==
    /\ pc[t] = "backend"
    /\ ~call[t].stream
    /\ LET r == generate(reply)
       IN  IF r.ok
           THEN /\ response' = [response EXCEPT ![t] = r.text]
                /\ pc' = [pc EXCEPT ![t] = "lock_b"]
                /\ UNCHANGED result
           ELSE /\ result' = [result EXCEPT ![t] =
                                [kind |-> "error", value |-> r.text]]
                /\ pc' = [pc EXCEPT ![t] = "return"]
                /\ UNCHANGED response
    /\ streak' = broken_by(t, generate(reply).ok)
    /\ last_op' = NoOp
    /\ requests' = [requests EXCEPT ![t] = @ + http_posts(reply)]
    /\ available_' = available_after_generate(available_, generate(reply).ok)
    /\ sent' = [sent EXCEPT ![t] =
                 backend_messages(messages[t], sessions_, call[t].session_id)]
    /\ UNCHANGED <<max_history_messages_, relock, sessions_, sessions_mutex_,
                   call, messages, chunks, ncalls, clearedDuring,
                   createdSinceClear, lastAppender, ahead, recent, probed, held,
                   g_llm_client, g_session_manager, accessor>>

\* The backend call of process_message_stream, line 414: generate_stream
\* hands every chunk to the collector, which appends it to full_response
\* and calls on_chunk.
GenerateStream(t, reply) ==
    /\ pc[t] = "backend"
    /\ call[t].stream
    /\ chunks' = [chunks EXCEPT ![t] = generate_stream(reply)]
    /\ response' = [response EXCEPT ![t] = collect(generate_stream(reply))]
    /\ pc' = [pc EXCEPT ![t] = "lock_b"]
    /\ streak' = broken_by(t, generate(reply).ok)
    /\ last_op' = NoOp
    /\ requests' = [requests EXCEPT ![t] = @ + http_posts(reply)]
    /\ available_' = available_after_generate(available_, generate(reply).ok)
    /\ sent' = [sent EXCEPT ![t] =
                 backend_messages(messages[t], sessions_, call[t].session_id)]
    /\ UNCHANGED <<max_history_messages_, relock, sessions_, sessions_mutex_,
                   call, messages, result, ncalls, clearedDuring,
                   createdSinceClear, lastAppender, ahead, recent, probed, held,
                   g_llm_client, g_session_manager, accessor>>

\* Phase B, lines 368-376 / 417-424: the lock_guard, the block it guards and
\* the return to the caller.  Nothing in the block blocks, so the block is
\* one step taken when the mutex is free.
PhaseB(t) ==
    LET sid == call[t].session_id
        found == sid \in DOMAIN sessions_
    IN  /\ pc[t] = "lock_b"
        /\ sessions_mutex_ = NoThread
        /\ sessions_' = phase_b(sessions_, sid, response[t])
        /\ result' = [result EXCEPT ![t] =
                        IF call[t].stream
                        THEN [kind |-> "void", value |-> ""]
                        ELSE [kind |-> "value", value |-> response[t]]]
        /\ pc' = [pc EXCEPT ![t] = "return"]
        /\ last_op' = NoOp
        /\ lastAppender' = IF found THEN [lastAppender EXCEPT ![sid] = t]
                           ELSE lastAppender
        /\ recent' = IF found
                     THEN [recent EXCEPT ![sid] =
                            LastN(Append(@, ChatMessage("assistant", response[t])),
                                  Window)]
                     ELSE recent
        /\ streak' = IF found /\ ~clearedDuring[t] /\ streak[sid] # Broken
                      THEN [streak EXCEPT ![sid] = @ + 1]
                      ELSE streak
        /\ UNCHANGED <<max_history_messages_, relock, sessions_mutex_, call,
                       messages, response, chunks, ncalls, clearedDuring,
                       createdSinceClear, ahead, available_, probed, requests,
                       sent, held,
                       g_llm_client, g_session_manager, accessor>>

\* The caller has its result; the thread is free for the next request.
Return(t) ==
    /\ pc[t] = "return"
    /\ pc' = [pc EXCEPT ![t] = "idle"]
    /\ call' = [call EXCEPT ![t] = NoCall]
    /\ messages' = [messages EXCEPT ![t] = <<>>]
    /\ response' = [response EXCEPT ![t] = ""]
    /\ chunks' = [chunks EXCEPT ![t] = <<>>]
    /\ result' = [result EXCEPT ![t] = NoResult]
    /\ last_op' = NoOp
    /\ clearedDuring' = [clearedDuring EXCEPT ![t] = FALSE]
    /\ ahead' = [o \in Threads |-> IF o = t THEN {} ELSE ahead[o] \ {t}]
    /\ requests' = [requests EXCEPT ![t] = 0]
    /\ sent' = [sent EXCEPT ![t] = <<>>]
    /\ UNCHANGED <<max_history_messages_, relock, sessions_, sessions_mutex_,
                   ncalls, createdSinceClear, lastAppender, recent, streak,
                   available_, probed, held,
                   g_llm_client, g_session_manager, accessor>>

\* clear_session, lines 436-440, called by another request.  The whole
\* function runs under the lock and does not block: one step, taken when
\* the mutex is free.
ClearSession(sid) ==
    /\ sessions_mutex_ = NoThread
    /\ sessions_' = clear_session(sessions_, sid)
    /\ last_op' = [op |-> "clear_session", session_id |-> sid, dialog |-> <<>>,
                   has_value |-> sid \in DOMAIN sessions_]
    /\ clearedDuring' = [t \in Threads |-> clearedDuring[t] \/ InFlight(t, sid)]
    /\ createdSinceClear' = createdSinceClear \ {sid}
    /\ lastAppender' = [lastAppender EXCEPT ![sid] = NoThread]
    /\ recent' = [recent EXCEPT ![sid] = <<>>]
    /\ streak' = [streak EXCEPT ![sid] = 0]
    /\ UNCHANGED <<max_history_messages_, relock, sessions_mutex_, pc, call,
                   messages, response, chunks, result, ncalls, ahead,
                   available_, probed, requests, sent, held,
                   g_llm_client, g_session_manager, accessor>>

\* get_session_history, lines 426-434, called by another request: one step
\* under the lock.
GetHistory(sid, keep) ==
    /\ sessions_mutex_ = NoThread
    /\ last_op' = [op |-> "get_session_history", session_id |-> sid,
                   dialog |-> get_session_history(sessions_, sid).value,
                   has_value |-> get_session_history(sessions_, sid).has_value]
    /\ held' = IF keep THEN get_session_history(sessions_, sid) ELSE held
    /\ UNCHANGED <<max_history_messages_, relock, sessions_, sessions_mutex_,
                   pc, call, messages, response, chunks, result, ncalls,
                   clearedDuring, createdSinceClear, lastAppender, ahead, recent,
                   streak, available_, probed, requests, sent,
                   g_llm_client, g_session_manager, accessor>>

\* ---------------------------------------------------- concurrent requests
\* What the upstream does in the concurrent runs: a reply that
\* generate_stream hands over as one chunk, or no reply.
ShortReplies ==
    {r \in UpstreamReplies : r.kind = "content" => Len(r.content) <= chunk_size}

\* Two request threads, two session ids, MaxCalls calls; sessions are
\* cleared by other requests at any moment.
Next ==
    \/ \E t \in Threads, sid \in SessionIds, um \in UserMessages, st \in BOOLEAN :
          ncalls < MaxCalls /\ Call(t, sid, "P", um, st)
    \/ \E t \in Threads : AcquireA(t)
    \/ \E t \in Threads : RelockBlocks(t)
    \/ \E t \in Threads : RelockThrows(t)
    \/ \E t \in Threads : PhaseA(t)
    \/ \E t \in Threads, reply \in ShortReplies : Generate(t, reply)
    \/ \E t \in Threads, reply \in ShortReplies : GenerateStream(t, reply)
    \/ \E t \in Threads : PhaseB(t)
    \/ \E t \in Threads : Return(t)
    \/ \E sid \in SessionIds : ClearSession(sid)

Spec == Init /\ [][Next]_vars

\* Every step of a thread that is in a call, for the fairness below.
ThreadStep(t) ==
    \/ AcquireA(t)
    \/ RelockBlocks(t)
    \/ RelockThrows(t)
    \/ PhaseA(t)
    \/ \E reply \in ShortReplies : Generate(t, reply)
    \/ \E reply \in ShortReplies : GenerateStream(t, reply)
    \/ PhaseB(t)
    \/ Return(t)

\* Threads are scheduled fairly and every backend call comes back.
FairSpec == Spec /\ \A t \in Threads : WF_vars(ThreadStep(t))

\* ------------------------------------------------------- sequential turns
\* One request thread talks to one session, turn after turn; the session is
\* read and cleared by other requests at any moment.
InitSeq == InitWith(0..MaxHistoryWide)

NextSeq ==
    \/ \E sp \in SystemPrompts, um \in UserMessages, st \in BOOLEAN :
          ncalls < MaxTurns /\ Call("t1", "A", sp, um, st)
    \/ AcquireA("t1")
    \/ RelockBlocks("t1")
    \/ RelockThrows("t1")
    \/ PhaseA("t1")
    \/ \E reply \in UpstreamReplies : Generate("t1", reply)
    \/ \E reply \in UpstreamReplies : GenerateStream("t1", reply)
    \/ PhaseB("t1")
    \/ Return("t1")
    \/ ClearSession("A")
    \/ GetHistory("A", FALSE)

SpecSeq == InitSeq /\ [][NextSeq]_vars

\* ---------------------------------------------------- one trimming pass
\* The dialogs a session can hold when a call enters phase A: the system
\* message, then any mix of user messages and replies.
\* Two threads call on session "A", t1 with process_message and t2 with
\* process_message_stream, while it is cleared and read by other requests,
\* some of which keep the list get_session_history returned.
InitCopy == InitWith(0..MaxHistory) /\ relock = "proceed"

NextCopy ==
    \/ \E t \in Threads, um \in UserMessages :
          ncalls < MaxCalls /\ Call(t, "A", "P", um, t = "t2")
    \/ \E t \in Threads : AcquireA(t)
    \/ \E t \in Threads : PhaseA(t)
    \/ \E t \in Threads, reply \in ShortReplies : Generate(t, reply)
    \/ \E t \in Threads, reply \in ShortReplies : GenerateStream(t, reply)
    \/ \E t \in Threads : PhaseB(t)
    \/ \E t \in Threads : Return(t)
    \/ ClearSession("A")
    \/ \E keep \in BOOLEAN : GetHistory("A", keep)

SpecCopy == InitCopy /\ [][NextCopy]_vars

\* Thread t1 calls with process_message and thread t2 with
\* process_message_stream, each on either session, while other requests
\* clear and read both sessions.
InitIso == InitWith(0..MaxHistory) /\ relock = "proceed"

NextIso ==
    \/ \E t \in Threads, sid \in SessionIds, um \in UserMessages :
          ncalls < MaxCalls /\ Call(t, sid, "P", um, t = "t2")
    \/ \E t \in Threads : AcquireA(t)
    \/ \E t \in Threads : PhaseA(t)
    \/ \E t \in Threads, reply \in ShortReplies : Generate(t, reply)
    \/ \E t \in Threads, reply \in ShortReplies : GenerateStream(t, reply)
    \/ \E t \in Threads : PhaseB(t)
    \/ \E t \in Threads : Return(t)
    \/ \E sid \in SessionIds : ClearSession(sid)
    \/ \E sid \in SessionIds : GetHistory(sid, FALSE)

SpecIso == InitIso /\ [][NextIso]_vars

\* Everything but the two singletons, the accessors and the client's probe.
storeVars == <<max_history_messages_, relock, sessions_, sessions_mutex_, pc,
               call, messages, response, chunks, result, ncalls, last_op,
               clearedDuring, createdSinceClear, lastAppender, ahead, recent,
               streak, requests, sent, held>>

\* The LLMClient constructor run for a new instance: one more probe.
Probe ==
    \E p \in ProbeReplies :
        /\ probed' = Append(probed, p)
        /\ available_' = test_connection(p)

\* init_llm_service, lines 449-453, as main calls it at line 43 before any
\* request is served: both instances are made.
InitLlmService ==
    /\ g_llm_client = nullptr
    /\ g_session_manager = nullptr
    /\ accessor = [t \in Threads |-> NoAccess]
    /\ Probe
    /\ g_llm_client' = "main"
    /\ g_session_manager' = "main"
    /\ UNCHANGED <<storeVars, accessor>>

\* get_session_manager, line 464: the test of g_session_manager.
CheckManager(t) ==
    /\ accessor[t].pc = "idle"
    /\ accessor' = [accessor EXCEPT ![t].pc =
                      IF g_session_manager = nullptr
                      THEN "check_client" ELSE "return"]
    /\ UNCHANGED <<storeVars, available_, probed, g_llm_client,
                   g_session_manager>>

\* get_llm_client called at line 465; line 456: the test of g_llm_client.
CheckClient(t) ==
    /\ accessor[t].pc = "check_client"
    /\ accessor' = [accessor EXCEPT ![t].pc =
                      IF g_llm_client = nullptr
                      THEN "make_client" ELSE "make_manager"]
    /\ UNCHANGED <<storeVars, available_, probed, g_llm_client,
                   g_session_manager>>

\* Line 458: g_llm_client = std::make_unique<LLMClient>(); the instance the
\* pointer owned before, if any, is destroyed.
MakeClient(t) ==
    /\ accessor[t].pc = "make_client"
    /\ Probe
    /\ g_llm_client' = t
    /\ accessor' = [accessor EXCEPT ![t].pc = "make_manager"]
    /\ UNCHANGED <<storeVars, g_session_manager>>

\* Line 465: g_session_manager = std::make_unique<SessionManager>(..., 20);
\* the instance the pointer owned before, if any, is destroyed with its map.
MakeManager(t) ==
    /\ accessor[t].pc = "make_manager"
    /\ g_session_manager' = t
    /\ accessor' = [accessor EXCEPT ![t].pc = "return"]
    /\ UNCHANGED <<storeVars, available_, probed, g_llm_client>>

\* Line 467: return *g_session_manager; the handler works on that instance.
ReturnManager(t) ==
    /\ accessor[t].pc = "return"
    /\ accessor' = [accessor EXCEPT ![t] =
                      [pc |-> "idle", ref |-> g_session_manager]]
    /\ UNCHANGED <<storeVars, available_, probed, g_llm_client,
                   g_session_manager>>

\* The process from its start: main may or may not have called
\* init_llm_service when the handlers of two server threads call
\* get_session_manager.
InitSingleton ==
    /\ max_history_messages_ = 20
    /\ relock = "proceed"
    /\ sessions_ = [k \in {} |-> 0]
    /\ sessions_mutex_ = NoThread
    /\ pc = [t \in Threads |-> "idle"]
    /\ call = [t \in Threads |-> NoCall]
    /\ messages = [t \in Threads |-> <<>>]
    /\ response = [t \in Threads |-> ""]
    /\ chunks = [t \in Threads |-> <<>>]
    /\ result = [t \in Threads |-> NoResult]
    /\ ncalls = 0
    /\ last_op = NoOp
    /\ clearedDuring = [t \in Threads |-> FALSE]
    /\ createdSinceClear = {}
    /\ lastAppender = [s \in SessionIds |-> NoThread]
    /\ ahead = [t \in Threads |-> {}]
    /\ recent = [s \in SessionIds |-> <<>>]
    /\ streak = [s \in SessionIds |-> 0]
    /\ requests = [t \in Threads |-> 0]
    /\ sent = [t \in Threads |-> <<>>]
    /\ held = nullopt
    /\ available_ = FALSE
    /\ probed = <<>>
    /\ g_llm_client = nullptr
    /\ g_session_manager = nullptr
    /\ accessor = [t \in Threads |-> NoAccess]

NextSingleton ==
    \/ InitLlmService
    \/ \E t \in Threads : CheckManager(t)
    \/ \E t \in Threads : CheckClient(t)
    \/ \E t \in Threads : MakeClient(t)
    \/ \E t \in Threads : MakeManager(t)
    \/ \E t \in Threads : ReturnManager(t)

SpecSingleton == InitSingleton /\ [][NextSingleton]_vars

\* LLMHandler::session_chat (st false) and session_chat_stream (st true) up
\* to the call of the session manager: the request is answered with the
\* rejection, or process_message / process_message_stream is called.
SessionChat(t, req, st) ==
    \/ /\ rejection(req) # 0
       /\ pc[t] = "idle"
       /\ last_op' = [op |-> IF rejection(req) = 401
                              THEN "rejected_401" ELSE "rejected_400",
                      session_id |-> req.session_id, dialog |-> <<>>,
                      has_value |-> FALSE]
       /\ UNCHANGED <<max_history_messages_, relock, sessions_,
                      sessions_mutex_, pc, call, messages, response, chunks,
                      result, ncalls, clearedDuring, createdSinceClear,
                      lastAppender, ahead, recent, streak, available_, probed,
                      requests, sent, held, g_llm_client, g_session_manager,
                      accessor>>
    \/ /\ rejection(req) = 0
       /\ Call(t, req.session_id, "P", req.message, st)

\* Two server threads take session chat requests of every kind.
InitBoundary == InitWith(0..MaxHistory) /\ relock = "proceed"

NextBoundary ==
    \/ \E t \in Threads, st \in BOOLEAN :
          \E req \in Requests(UserMessageOf[ncalls + 1]) :
              ncalls < MaxCalls /\ SessionChat(t, req, st)
    \/ \E t \in Threads : AcquireA(t)
    \/ \E t \in Threads : PhaseA(t)
    \/ \E t \in Threads, reply \in ShortReplies : Generate(t, reply)
    \/ \E t \in Threads, reply \in ShortReplies : GenerateStream(t, reply)
    \/ \E t \in Threads : PhaseB(t)
    \/ \E t \in Threads : Return(t)

SpecBoundary == InitBoundary /\ [][NextBoundary]_vars

TailMessages ==
    { ChatMessage("user", "hi"), ChatMessage("user", "yo"),
      ChatMessage("assistant", "R"), ChatMessage("assistant", "S") }

RECURSIVE Tails(_)
Tails(n) ==
    IF n = 0 THEN {<<>>}
    ELSE Tails(n - 1) \cup
         {Append(s, m) : s \in {x \in Tails(n - 1) : Len(x) = n - 1},
                         m \in TailMessages}

StoredDialogs == {<<ChatMessage("system", "P")>> \o tl : tl \in Tails(MaxTail)}

\* A thread holds the lock of phase A (line 350) of a call on session "A",
\* which is absent or holds any of the dialogs above.
InitTrim ==
    /\ max_history_messages_ \in 0..MaxHistoryWide
    /\ relock = "proceed"
    /\ \/ sessions_ = [k \in {} |-> 0]
       \/ \E d \in StoredDialogs :
            sessions_ = [k \in {"A"} |-> [dialog |-> d, message_count |-> 1]]
    /\ sessions_mutex_ = "t1"
    /\ pc = [t \in Threads |-> IF t = "t1" THEN "phase_a" ELSE "idle"]
    /\ \E st \in BOOLEAN :
         call = [t \in Threads |->
                    IF t = "t1"
                    THEN [session_id |-> "A", system_prompt |-> "P",
                          user_message |-> UserMessageOf[1], stream |-> st]
                    ELSE NoCall]
    /\ messages = [t \in Threads |-> <<>>]
    /\ response = [t \in Threads |-> ""]
    /\ chunks = [t \in Threads |-> <<>>]
    /\ result = [t \in Threads |-> NoResult]
    /\ ncalls = 1
    /\ last_op = NoOp
    /\ clearedDuring = [t \in Threads |-> FALSE]
    /\ createdSinceClear = DOMAIN sessions_
    /\ lastAppender = [s \in SessionIds |-> NoThread]
    /\ ahead = [t \in Threads |-> {}]
    /\ recent = [s \in SessionIds |-> <<>>]
    /\ streak = [s \in SessionIds |-> 0]
    /\ Constructed({[kind |-> "content", content |-> "R"]})
    /\ requests = [t \in Threads |-> 0]
    /\ sent = [t \in Threads |-> <<>>]
    /\ held = nullopt
    /\ ServiceInitialized

NextTrim == \E t \in Threads : PhaseA(t)

SpecTrim == InitTrim /\ [][NextTrim]_vars

\* ------------------------------------------------- one call, both variants
\* The same call is made through process_message (thread t1, id "A") and
\* through process_message_stream (thread t2, id "B") against a deterministic
\* backend: its reply is the content of the last message it is sent.
EchoMessages ==
    { "", "a", "123456789", "1234567890", "1234567890a",
      "12345678901234567890", "123456789012345678901" }

EchoReply(msgs) == [kind |-> "content", content |-> Last(msgs).content]

\* The ways the upstream fails: no connection or a timeout, a body that is
\* not JSON, JSON without choices, a choice without message.content.
FailedReplies ==
    { [kind |-> k, content |-> ""] :
        k \in {"unreachable", "not_json", "no_choices", "empty_choices",
               "no_content"} }

\* LLMHandler::health, lines 389-407: reads is_available(), which returns
\* available_, and answers; it sends nothing to the upstream.
Health ==
    /\ last_op' = [op |-> "health", session_id |-> health(available_).body,
                   dialog |-> <<>>, has_value |-> available_]
    /\ UNCHANGED <<max_history_messages_, relock, sessions_, sessions_mutex_,
                   pc, call, messages, response, chunks, result, ncalls,
                   clearedDuring, createdSinceClear, lastAppender, ahead, recent,
                   streak, available_, probed, requests, sent, held,
                   g_llm_client, g_session_manager, accessor>>

InitClient ==
    /\ max_history_messages_ \in 0..MaxHistoryWide
    /\ relock = "proceed"
    /\ sessions_ = [k \in {} |-> 0]
    /\ sessions_mutex_ = NoThread
    /\ pc = [t \in Threads |-> "lock_a"]
    /\ \E sp \in SystemPrompts, um \in EchoMessages :
         call = [t \in Threads |->
                    [session_id |-> IF t = "t1" THEN "A" ELSE "B",
                     system_prompt |-> sp, user_message |-> um,
                     stream |-> t # "t1"]]
    /\ messages = [t \in Threads |-> <<>>]
    /\ response = [t \in Threads |-> ""]
    /\ chunks = [t \in Threads |-> <<>>]
    /\ result = [t \in Threads |-> NoResult]
    /\ ncalls = 2
    /\ last_op = NoOp
    /\ clearedDuring = [t \in Threads |-> FALSE]
    /\ createdSinceClear = {}
    /\ lastAppender = [s \in SessionIds |-> NoThread]
    /\ ahead = [t \in Threads |-> {}]
    /\ recent = [s \in SessionIds |-> <<>>]
    /\ streak = [s \in SessionIds |-> 0]
    /\ Constructed(ProbeReplies)
    /\ requests = [t \in Threads |-> 0]
    /\ sent = [t \in Threads |-> <<>>]
    /\ held = nullopt
    /\ ServiceInitialized

NextClient ==
    \/ \E t \in Threads : AcquireA(t)
    \/ \E t \in Threads : PhaseA(t)
    \/ \E t \in Threads : Generate(t, EchoReply(messages[t]))
    \/ \E t \in Threads : GenerateStream(t, EchoReply(messages[t]))
    \/ \E t \in Threads, reply \in FailedReplies : Generate(t, reply)
    \/ \E t \in Threads, reply \in FailedReplies : GenerateStream(t, reply)
    \/ \E t \in Threads : PhaseB(t)
    \/ Health

SpecClient == InitClient /\ [][NextClient]_vars

\* ----------------------------------------------------------------- claims
\* C1: a thread that is inside the backend call (generate / generate_stream)
\* does not hold sessions_mutex_.
C1_LockNotHeldInBackend ==
    \A t \in Threads : pc[t] = "backend" => sessions_mutex_ # t

\* A process_message call and a process_message_stream call are inside the
\* backend call at the same moment.
C1_Witness ==
    \E t, o \in Threads :
        /\ pc[t] = "backend" /\ ~call[t].stream
        /\ pc[o] = "backend" /\ call[o].stream

\* C2: under fair scheduling and a backend that always comes back, every
\* call that has started returns to its caller.
C2_EveryCallReturns ==
    \A t \in Threads : (pc[t] = "lock_a") ~> (pc[t] = "return")

\* C3: while a call on one session sits in the backend call, every step of
\* a call on another session can be taken: the lock, phase A, its own
\* backend call and phase B.
C3_OtherSessionNeverWaits ==
    \A a, b \in Threads :
        (/\ a # b
         /\ pc[a] = "backend"
         /\ call[a].session_id # call[b].session_id)
        => /\ pc[b] = "lock_a" => ENABLED AcquireA(b)
           /\ pc[b] = "phase_a" => ENABLED PhaseA(b)
           /\ pc[b] = "backend" =>
                ENABLED (\E reply \in ShortReplies :
                            Generate(b, reply) \/ GenerateStream(b, reply))
           /\ pc[b] = "lock_b" => ENABLED PhaseB(b)

\* Calls on two different sessions are in the backend call together.
C3_Witness ==
    \E a, b \in Threads :
        /\ pc[a] = "backend" /\ pc[b] = "backend"
        /\ call[a].session_id # call[b].session_id

\* C4 (invariant I1): every stored dialog is non-empty and starts with the
\* system message.
C4_SystemMessageFirst ==
    \A sid \in DOMAIN sessions_ :
        /\ Len(sessions_[sid].dialog) >= 1
        /\ sessions_[sid].dialog[1].role = "system"

\* A dialog that has been trimmed (its first kept entry is a reply) while a
\* second call on the same session is in flight.
C4_Witness ==
    \E sid \in DOMAIN sessions_ :
        /\ Len(sessions_[sid].dialog) >= 3
        /\ sessions_[sid].dialog[1].role = "system"
        /\ sessions_[sid].dialog[2].role = "assistant"
        /\ \E t \in Threads : InFlight(t, sid)

\* C5 (invariant I2): a trimming pass leaves dialog[0] as it was, and what it
\* discards is one block of entries directly after dialog[0].
C5_TrimKeepsSystemMessage ==
    last_op.op = "trim_history" =>
        LET before == last_op.dialog
            after == sessions_[last_op.session_id].dialog
        IN  /\ Len(after) >= 1
            /\ after[1] = before[1]
            /\ \E k \in 0..(Len(before) - 1) :
                 after = <<before[1]>> \o SubSeq(before, k + 2, Len(before))

\* A trimming pass that has discarded entries of a dialog.
C5_Witness ==
    /\ last_op.op = "trim_history"
    /\ max_history_messages_ >= 1
    /\ Len(sessions_[last_op.session_id].dialog) < Len(last_op.dialog)
    /\ sessions_[last_op.session_id].dialog[1] = ChatMessage("system", "P")

\* C6: with n non-system messages, trim_history leaves the dialog as it is
\* when n <= 2*maxHistory, and otherwise makes it dialog[0] followed by the
\* last 2*maxHistory elements of the old dialog, in their order.
C6_TrimResult ==
    last_op.op = "trim_history" =>
        LET before == last_op.dialog
            after == sessions_[last_op.session_id].dialog
            n == Len(before) - 1
            keep == 2 * max_history_messages_
        IN  IF n <= keep
            THEN after = before
            ELSE after = <<before[1]>> \o LastN(before, keep)

\* A trimming pass over a dialog that is two or more entries too long.
C6_Witness ==
    /\ last_op.op = "trim_history"
    /\ max_history_messages_ = 2
    /\ Len(last_op.dialog) - 1 >= 2 * max_history_messages_ + 2
    /\ Len(sessions_[last_op.session_id].dialog) = 2 * max_history_messages_ + 1

\* Session sid has had k turns since it was created, one after the other,
\* each ended by the reply of the upstream, and no call is under way.
AfterTurns(sid, k) ==
    /\ sid \in DOMAIN sessions_
    /\ streak[sid] = k
    /\ sessions_[sid].message_count = k
    /\ \A t \in Threads : pc[t] \in {"idle", "return"}

C8_ClearedResponseDiscarded ==
    [][\A t \in Threads :
         (clearedDuring[t] /\ pc[t] = "lock_b" /\ pc'[t] = "return") =>
            /\ sessions_' = sessions_
            /\ result'[t] = IF call[t].stream
                            THEN [kind |-> "void", value |-> ""]
                            ELSE [kind |-> "value", value |-> response[t]]]_vars

\* C9 (invariant I3): an id is in the store exactly when a call on it has
\* completed phase A since the id was last cleared; get_session_history and
\* phase B insert nothing.
C9_PresentIffCreatedSinceClear ==
    DOMAIN sessions_ = createdSinceClear

\* Phase B has run for a call whose id was cleared during its unlocked phase,
\* and the id is still absent.
C9_Witness ==
    /\ pc["t1"] = "return"
    /\ result["t1"].kind \in {"value", "void"}
    /\ clearedDuring["t1"]
    /\ call["t1"].session_id \notin DOMAIN sessions_

\* Call b completed phase A on the id of call a while a was in its unlocked
\* phase, nothing was appended to the dialog between the two phases A, and
\* the id has not been cleared since.
Overlap(a, b) ==
    /\ a # b
    /\ a \in ahead[b]
    /\ call[a].session_id = call[b].session_id
    /\ ~clearedDuring[a]
    /\ ~clearedDuring[b]

Replied(t) == pc[t] = "return" /\ result[t].kind \in {"value", "void"}

\* C10: when two calls on one id have both completed phase A before either
\* ran phase B (with room for two messages, maxHistory >= 1), the second
\* call's snapshot ends with the first call's user message and then its own,
\* no reply between them; the first call's snapshot ends with its own user
\* message and lacks the second call's; and once both have run phase B the
\* dialog, while it stays stored, ends with the two user messages and then
\* the two replies, the reply of the call whose phase B ran last in the last
\* place.
C10_SameSessionRace ==
    \A a \in Threads, b \in Threads :
        (Overlap(a, b) /\ max_history_messages_ >= 1) =>
            LET ua == ChatMessage("user", call[a].user_message)
                ub == ChatMessage("user", call[b].user_message)
                sid == call[b].session_id
            IN  /\ LastN(messages[b], 2) = <<ua, ub>>
                /\ Last(messages[a]) = ua
                /\ \A i \in 1..Len(messages[a]) : messages[a][i] # ub
                /\ (Replied(a) /\ Replied(b) /\ sid \in DOMAIN sessions_) =>
                     \E x \in {a, b}, y \in {a, b} :
                        /\ x # y
                        /\ y = lastAppender[sid]
                        /\ LastN(sessions_[sid].dialog, 4) =
                             <<ua, ub, ChatMessage("assistant", response[x]),
                               ChatMessage("assistant", response[y])>>

\* Both calls have their replies stored, the reply of the call that entered
\* first after the reply of the call that entered second.
C10_Witness ==
    \E a \in Threads, b \in Threads :
        /\ Overlap(a, b)
        /\ max_history_messages_ >= 1
        /\ Replied(a) /\ Replied(b)
        /\ response[a] # response[b]
        /\ lastAppender[call[a].session_id] = a
        /\ Last(sessions_[call[a].session_id].dialog) =
             ChatMessage("assistant", response[a])

\* C11: the system prompt of a session is the one of the call that created
\* it: the step that inserts an id puts that call's systemPrompt in
\* dialog[0], and no step changes dialog[0] of an id that stays stored,
\* whatever systemPrompt the calls on it pass.
C11_SystemPromptFixedAtCreation ==
    [][\A sid \in DOMAIN sessions_' :
         IF sid \in DOMAIN sessions_
         THEN sessions_'[sid].dialog[1] = sessions_[sid].dialog[1]
         ELSE \E t \in Threads :
                /\ pc[t] = "phase_a"
                /\ call[t].session_id = sid
                /\ sessions_'[sid].dialog[1] =
                     ChatMessage("system", call[t].system_prompt)]_vars

\* A call that passed another system prompt than the stored one has run
\* both phases on a session created by an earlier call.
C11_Witness ==
    \E t \in Threads :
        /\ pc[t] = "return"
        /\ result[t].kind \in {"value", "void"}
        /\ call[t].session_id \in DOMAIN sessions_
        /\ ~clearedDuring[t]
        /\ call[t].system_prompt = "Q"
        /\ sessions_[call[t].session_id].dialog[1] = ChatMessage("system", "P")
        /\ sessions_[call[t].session_id].message_count >= 2

\* C12: after k successful turns on a fresh session, one after the other and
\* below the trimming bound (k <= maxHistory), getHistory returns the system
\* message followed, turn by turn, by the user message of the turn and then
\* the reply of the backend to it; after one turn that is
\* [system, user, assistant].
C12_TurnAppendsUserThenReply ==
    \A sid \in SessionIds :
        (/\ last_op.op = "get_session_history"
         /\ last_op.session_id = sid
         /\ streak[sid] >= 1
         /\ AfterTurns(sid, streak[sid])
         /\ streak[sid] <= max_history_messages_) =>
            LET k == streak[sid]
                tl == Tail(last_op.dialog)
            IN  /\ last_op.has_value
                /\ last_op.dialog[1].role = "system"
                /\ Len(tl) = 2 * k
                /\ tl = recent[sid]
                /\ \A i \in 1..k :
                     /\ tl[2 * i - 1] =
                          ChatMessage("user", UserMessageOf[ncalls - k + i])
                     /\ tl[2 * i].role = "assistant"

\* getHistory after the first turn on a fresh session: system prompt P, the
\* user message, the reply R.
C12_Witness ==
    /\ last_op.op = "get_session_history"
    /\ AfterTurns("A", 1)
    /\ last_op.dialog = <<ChatMessage("system", "P"),
                          ChatMessage("user", UserMessageOf[ncalls]),
                          ChatMessage("assistant", "R")>>

\* The call of thread t has created the session it is on and is in its
\* unlocked phase: the first moment at which another request can read the
\* new session.
JustCreated(t) ==
    /\ InFlight(t, call[t].session_id)
    /\ ~clearedDuring[t]
    /\ call[t].session_id \in DOMAIN sessions_
    /\ sessions_[call[t].session_id].message_count = 1
    /\ lastAppender[call[t].session_id] = NoThread

\* C13 as stated: getHistory right after the creation of a session with
\* system prompt P returns exactly one message, {system, P}.
C13_HistoryAfterCreationIsSystemOnly ==
    \A t \in Threads :
        (/\ last_op.op = "get_session_history"
         /\ last_op.session_id = call[t].session_id
         /\ JustCreated(t)) =>
            /\ last_op.has_value
            /\ last_op.dialog = <<ChatMessage("system", call[t].system_prompt)>>

\* C13 as the code has it: get_or_create_session inserts an absent id with
\* the dialog [{system, P}], under the lock that also covers the push of the
\* first user message; getHistory right after the creation returns
\* [{system, P}, {user, message}], and [{system, P}] alone only with
\* maxHistory = 0, where the trimming pass has removed the user message.
C13_HistoryAfterCreation ==
    /\ \A sid \in SessionIds \ DOMAIN sessions_, sp \in SystemPrompts :
         get_or_create_session(sessions_, sid, sp)[sid].dialog =
            <<ChatMessage("system", sp)>>
    /\ \A t \in Threads :
        (/\ last_op.op = "get_session_history"
         /\ last_op.session_id = call[t].session_id
         /\ JustCreated(t)) =>
            /\ last_op.has_value
            /\ last_op.dialog =
                 IF max_history_messages_ = 0
                 THEN <<ChatMessage("system", call[t].system_prompt)>>
                 ELSE <<ChatMessage("system", call[t].system_prompt),
                        ChatMessage("user", call[t].user_message)>>

\* getHistory has read a session that the call in its unlocked phase created.
C13_Witness ==
    \E t \in Threads :
        /\ last_op.op = "get_session_history"
        /\ last_op.session_id = call[t].session_id
        /\ JustCreated(t)
        /\ max_history_messages_ >= 1
        /\ Len(last_op.dialog) = 2

\* C14: getHistory answers NotFound (the absent optional, 404 at the
\* boundary) exactly for an id that was never created or was cleared and not
\* created again, and a history (200) for a stored id: the two answers
\* differ, and clearSession followed by getHistory gives NotFound.
C14_HistoryNotFoundIffAbsent ==
    last_op.op = "get_session_history" =>
        LET history == [has_value |-> last_op.has_value, value |-> last_op.dialog]
            stored == last_op.session_id \in createdSinceClear
        IN  /\ history.has_value = stored
            /\ ~stored => /\ history = nullopt
                          /\ history_response(history).status = 404
            /\ stored => /\ history = optional(sessions_[last_op.session_id].dialog)
                         /\ history_response(history).status = 200
                         /\ history_response(history).messages # <<>>

\* getHistory on an id that a call created and clearSession removed.
C14_Witness ==
    /\ last_op.op = "get_session_history"
    /\ ~last_op.has_value
    /\ \E t \in Threads :
         /\ call[t].session_id = last_op.session_id
         /\ clearedDuring[t]

\* C15: clearSession is idempotent: a second clearSession(id) right after the
\* first leaves the store as the first left it, clearSession of an id that
\* is not stored changes nothing, and in both cases it returns without an
\* error to anybody.
C15_ClearIdempotent ==
    [][\A sid \in SessionIds :
         ClearSession(sid) =>
            /\ clear_session(sessions_', sid) = sessions_'
            /\ sid \notin DOMAIN sessions_ => sessions_' = sessions_
            /\ \A k \in DOMAIN sessions_ \ {sid} :
                 k \in DOMAIN sessions_' /\ sessions_'[k] = sessions_[k]
            /\ result' = result]_vars

\* clearSession has run on an id that an earlier clearSession had removed,
\* while another id is stored.
C15_Witness ==
    /\ last_op.op = "clear_session"
    /\ ~last_op.has_value
    /\ DOMAIN sessions_ # {}
    /\ \E t \in Threads :
         call[t].session_id = last_op.session_id /\ clearedDuring[t]

\* C16: a stored id leaves the store only in a clearSession step on that
\* id: no step of processMessage or processMessageStream (trimming pass and
\* failed backend call included) and no getHistory removes a session.
C16_RemovedOnlyByClear ==
    [][\A sid \in DOMAIN sessions_ :
         sid \notin DOMAIN sessions_' => ClearSession(sid)]_vars

\* A session that has been through a trimming pass and a failed backend call
\* is still stored.
C16_Witness ==
    \E t \in Threads :
        /\ pc[t] = "return"
        /\ result[t].kind = "error"
        /\ ~clearedDuring[t]
        /\ call[t].session_id \in DOMAIN sessions_
        /\ sessions_[call[t].session_id].message_count >= 3
        /\ Len(sessions_[call[t].session_id].dialog) <
             sessions_[call[t].session_id].message_count

\* Both variants of the call have returned and the backend has answered both.
BothAnswered ==
    /\ pc["t1"] = "return" /\ result["t1"].kind = "value"
    /\ pc["t2"] = "return" /\ result["t2"].kind = "void"
    /\ streak["B"] # Broken
    /\ messages["t1"] = messages["t2"]

\* C17: for the same inputs and a deterministic backend that succeeds, the
\* chunks that processMessageStream hands to the callback, concatenated in
\* the order of delivery, are the string that processMessage returns.
C17_StreamEqualsReturn ==
    BothAnswered => collect(chunks["t2"]) = result["t1"].value

\* A reply of more than two chunks has gone through both variants.
C17_Witness ==
    /\ BothAnswered
    /\ Len(chunks["t2"]) >= 3
    /\ Len(result["t1"].value) > 2 * chunk_size

\* The streaming call has its chunks and the backend answered it / failed.
StreamDone == pc["t2"] \in {"lock_b", "return"}
StreamFailed == StreamDone /\ streak["B"] = Broken
StreamAnswered == StreamDone /\ streak["B"] # Broken

\* C18: on success generateStream hands the response over as consecutive
\* slices of 10 characters, in order: for a response of length L there are
\* ceil(L/10) chunks, chunk k (from 0) is characters [10k, 10k+10) of the
\* response, and no chunk is empty.
C18_ChunksAreSlices ==
    StreamAnswered =>
        LET text == EchoReply(messages["t2"]).content
            L == Len(text)
            cs == chunks["t2"]
        IN  /\ Len(cs) = (L + 9) \div 10
            /\ \A k \in 0..(Len(cs) - 1) :
                 /\ cs[k + 1] = SubSeq(text, 10 * k + 1,
                                       IF 10 * k + 10 < L THEN 10 * k + 10 ELSE L)
                 /\ cs[k + 1] # ""

\* A response of 21 characters has been delivered: two full slices and one
\* of a single character.
C18_Witness ==
    /\ StreamAnswered
    /\ Len(chunks["t2"]) = 3
    /\ Len(chunks["t2"][2]) = 10
    /\ Len(chunks["t2"][3]) = 1

\* C19: when the backend call fails, generateStream calls onChunk once, with
\* a chunk that starts with the error marker, and returns: the streaming
\* call goes on to phase B and returns to its caller without an error.
C19_StreamFailureIsOneChunk ==
    /\ StreamFailed =>
        /\ Len(chunks["t2"]) = 1
        /\ Len(chunks["t2"][1]) > 7
        /\ SubSeq(chunks["t2"][1], 1, 7) = "Error: "
        /\ response["t2"] = chunks["t2"][1]
    /\ \A t \in Threads : call[t].stream => result[t].kind # "error"
    /\ (StreamFailed /\ pc["t2"] = "return") => result["t2"].kind = "void"

\* The streaming call has returned after a failed backend call.
C19_Witness ==
    /\ StreamFailed
    /\ pc["t2"] = "return"
    /\ result["t2"].kind = "void"
    /\ chunks["t2"] = <<"Error: LLM generation failed: Failed to connect">>

\* The condition of the spec a failure of the upstream falls under.
ErrorClass(reply) ==
    IF reply.kind = "unreachable"
    THEN "UpstreamUnavailable"
    ELSE "InvalidUpstreamResponse"

\* C20: generate reports UpstreamUnavailable and InvalidUpstreamResponse as
\* two outcomes that can be told apart: whenever generate fails, what it
\* throws (type or label of the message) and what the boundary answers
\* (status or label of the detail) differ from what any failure of the other
\* class gives.
C20_ErrorClassesDistinct ==
    [][\A t \in Threads, r1 \in FailedReplies :
         Generate(t, r1) =>
            \A r2 \in FailedReplies :
               ErrorClass(r1) # ErrorClass(r2) =>
                  LET e1 == generate_exception(r1)
                      e2 == generate_exception(r2)
                      b1 == session_chat_response(result'[t])
                      b2 == session_chat_response(
                               [kind |-> "error", value |-> e2.what])
                  IN  /\ e1.type # e2.type \/ label(e1.what, 1) # label(e2.what, 1)
                      /\ b1.status # b2.status
                           \/ label(b1.detail, 1) # label(b2.detail, 1)]_vars

\* C21: test_connection returns true only if the probe's response parses as
\* JSON and holds a choices list that is not empty; it returns false when
\* the upstream is unreachable, when the response does not parse, when
\* choices is missing and when choices is an empty list.  available_ holds
\* what test_connection returned for the one probe of the constructor.
C21_ProbeNeedsNonEmptyChoices ==
    LET probe == Head(probed)
    IN  /\ available_ => probe.kind \in {"no_content", "content"}
        /\ probe.kind \in {"unreachable", "not_json", "no_choices",
                            "empty_choices"} => ~available_

\* C22: available_ is set once, by the probe of the constructor; no later
\* operation (generate, generate_stream, succeeding or failing, the health
\* endpoint, any step of a session call) changes it or probes again, and
\* health answers from the flag of that one probe.
C22_AvailableSetOnce ==
    [][/\ available_' = available_
       /\ probed' = probed
       /\ Len(probed) = 1
       /\ available_ = test_connection(Head(probed))
       /\ last_op'.op = "health" =>
             last_op'.session_id =
                IF test_connection(Head(probed)) THEN "ok" ELSE "unavailable"
      ]_vars

\* C22 witness: a client whose probe succeeded has since had a failing
\* generate and a failing generate_stream, and health has been asked.
C22_Witness ==
    /\ available_
    /\ last_op.op = "health"
    /\ result["t1"].kind = "error"
    /\ StreamFailed

IsSuffix(a, b) ==
    /\ Len(a) <= Len(b)
    /\ a = SubSeq(b, Len(b) - Len(a) + 1, Len(b))

\* new is old with at most one message appended at the end and a
\* contiguous block, possibly empty, deleted directly after position 0.
AppendedAndCut(old, new) ==
    /\ Len(new) >= 1
    /\ new[1] = old[1]
    /\ \/ IsSuffix(Tail(new), Tail(old))
       \/ /\ Len(new) >= 2
          /\ IsSuffix(SubSeq(new, 2, Len(new) - 1), Tail(old))
          /\ Len(new) <= Len(old) + 1

\* C24: messages are immutable and keep their order once appended: across
\* every step of every operation on a session that is stored before and
\* after the step, the new dialog is the old one with one message appended
\* at the end and/or a contiguous block deleted directly after position 0;
\* no stored message changes and the survivors keep their relative order.
C24_MessagesImmutable ==
    [][\A sid \in DOMAIN sessions_ \cap DOMAIN sessions_' :
          AppendedAndCut(sessions_[sid].dialog, sessions_'[sid].dialog)
      ]_vars

\* C24 witness: a phase A has appended the user message and trimmed two
\* older messages away in one step, on a session holding earlier turns.
C24_Witness ==
    /\ last_op.op = "trim_history"
    /\ "A" \in DOMAIN sessions_
    /\ Len(sessions_["A"].dialog) >= 3
    /\ Len(last_op.dialog) = Len(sessions_["A"].dialog) + 2

\* C25: callers and the backend only see copies taken under the lock.  The
\* list a call gives to generate / generate_stream is the session's dialog
\* as it was at the end of that call's phase A, whatever other threads
\* append, trim or clear while the call is unlocked; and the list a
\* get_session_history caller keeps changes with no later step on the
\* session, only with the next get_session_history of that caller.
C25_SnapshotsAreCopies ==
    [][/\ \A t \in Threads :
            /\ PhaseA(t) =>
                  messages'[t] = sessions_'[call[t].session_id].dialog
            /\ pc[t] = "backend" =>
                  /\ messages'[t] = messages[t]
                  /\ pc'[t] # "backend" => sent'[t] = messages[t]
       /\ held' # held =>
            /\ last_op'.op = "get_session_history"
            /\ held' = get_session_history(sessions_, last_op'.session_id)
      ]_vars

\* C25 witness: a call has given its backend the list of its phase A
\* although the other thread's call has changed the stored dialog since;
\* and a kept history differs from what the session holds now.
C25_Witness ==
    \E t \in Threads :
        /\ pc[t] = "lock_b"
        /\ sent[t] = messages[t]
        /\ Len(sent[t]) >= 2
        /\ "A" \in DOMAIN sessions_
        /\ ~clearedDuring[t]
        /\ sessions_["A"].dialog # sent[t]
        /\ held.has_value
        /\ Len(held.value) >= 2
        /\ sessions_["A"].dialog # held.value

\* Thread t owns sessions_mutex_ (line 350 / 392) and stands at the call of
\* get_or_create_session (line 351 / 393), whose first statement (line 296)
\* locks sessions_mutex_.
Relocking(t) == pc[t] = "phase_a" /\ sessions_mutex_ = t

\* C26: the non-recursive lock of the session map is never re-entered: no
\* thread ever tries to acquire sessions_mutex_ while it owns it, in
\* particular not when process_message / process_message_stream call
\* get_or_create_session from inside the locked block of phase A.
C26_LockNeverReentered ==
    \A t \in Threads : ~Relocking(t)

\* The replies at the end of a dialog: the messages appended since the last
\* user message.
RECURSIVE TrailingReplies(_)
TrailingReplies(dialog) ==
    IF dialog = <<>> \/ Last(dialog).role # "assistant" THEN 0
    ELSE 1 + TrailingReplies(SubSeq(dialog, 1, Len(dialog) - 1))

\* The N of the bound: calls on the session past phase A and before phase B.
InFlightOn(sid) == Cardinality({t \in Threads : InFlight(t, sid)})

NonSystem(sid) == Len(sessions_[sid].dialog) - 1

\* C27 as stated: in every reachable state the non-system messages of a
\* session number at most 2*maxHistory + N, N being the calls on that
\* session that have completed phase A and not yet phase B.
C27_BoundByInFlight ==
    \A sid \in DOMAIN sessions_ :
        NonSystem(sid) <= 2 * max_history_messages_ + InFlightOn(sid)

\* C27, amended: the non-system messages of a session number at most
\* 2*maxHistory plus the replies appended since the session's last phase A,
\* one per call that was past phase A then, so at most one per thread; what
\* phase A leaves is within 2*maxHistory.
C27_BoundByRepliesSinceTrim ==
    \A sid \in DOMAIN sessions_ :
        /\ NonSystem(sid) <= 2 * max_history_messages_
                               + TrailingReplies(sessions_[sid].dialog)
        /\ TrailingReplies(sessions_[sid].dialog) <= Cardinality(Threads)
        /\ last_op.op = "trim_history" /\ last_op.session_id = sid =>
              NonSystem(sid) <= 2 * max_history_messages_

\* C27 witness: both calls on a full session have appended their reply and
\* none is in flight: two messages above 2*maxHistory.
C27_Witness ==
    \E sid \in DOMAIN sessions_ :
        /\ max_history_messages_ >= 1
        /\ InFlightOn(sid) = 0
        /\ TrailingReplies(sessions_[sid].dialog) = 2
        /\ NonSystem(sid) = 2 * max_history_messages_ + 2

\* C28: for every configured maxHistory >= 0 and every prior history, the
\* snapshot process_message / process_message_stream passes to the backend
\* has the system message first and the call's own user message last:
\* trimming never discards the message just appended.
C28_SnapshotEndsWithUserMessage ==
    \A t \in Threads :
        pc[t] = "backend" =>
            /\ Len(messages[t]) >= 2
            /\ messages[t][1].role = "system"
            /\ Last(messages[t]) = ChatMessage("user", call[t].user_message)

\* The step in which generate throws inside process_message of thread t:
\* the caller gets the exception, phase B is not run, the store stays as
\* phase A left it.
FailurePropagates(t) ==
    \A r \in UpstreamReplies :
        (r.kind # "content" /\ Generate(t, r)) =>
            /\ result'[t] = [kind |-> "error",
                             value |-> generate_exception(r).what]
            /\ pc'[t] = "return"
            /\ sessions_' = sessions_

\* The last turn on the stored session sid ended with generate throwing:
\* a turn has failed since the creation and the last message appended is
\* a user message.
AfterFailedTurn(sid) ==
    /\ sid \in DOMAIN sessions_
    /\ streak[sid] = Broken
    /\ recent[sid] # <<>>
    /\ Last(recent[sid]).role = "user"

\* The snapshot thread t takes in this step ends with the user message of
\* the turn before and the user message of its own call.
TwoUserMessages(t) ==
    /\ Len(messages'[t]) >= 3
    /\ messages'[t][Len(messages'[t]) - 1] = Last(recent[call[t].session_id])
    /\ Last(messages'[t]) = ChatMessage("user", call[t].user_message)

ErrorMarker == "Error: LLM generation failed: Failed to connect"

\* The phase B of a process_message_stream whose session is stored appends
\* the assistant message made of the chunks the caller was given.
StreamStoresChunks(t) ==
    (/\ PhaseB(t)
     /\ call[t].stream
     /\ call[t].session_id \in DOMAIN sessions_) =>
        Last(sessions_'[call[t].session_id].dialog) =
           ChatMessage("assistant", collect(chunks[t]))

\* The stored dialog of sid ends with the error marker as assistant message.
EndsWithMarker(sid) ==
    /\ sid \in DOMAIN sessions_
    /\ Last(sessions_[sid].dialog) = ChatMessage("assistant", ErrorMarker)

SessionChanged(b) ==
    \/ (b \in DOMAIN sessions_) # (b \in DOMAIN sessions_')
    \/ /\ b \in DOMAIN sessions_
       /\ b \in DOMAIN sessions_'
       /\ sessions_'[b] # sessions_[b]

\* C31: session isolation.  Whatever the interleaving, a step changes the
\* presence or the dialog of a session id only if it is phase A or phase B
\* of a process_message / process_message_stream call on that id, or a
\* clear_session of that id; get_session_history changes no session.
C31_SessionIsolation ==
    [][/\ \A b \in SessionIds :
            SessionChanged(b) =>
               \/ \E t \in Threads :
                     /\ call[t].session_id = b
                     /\ PhaseA(t) \/ PhaseB(t)
               \/ ClearSession(b)
       /\ last_op'.op = "get_session_history" => sessions_' = sessions_
      ]_vars

\* C31 witness: session "A" has just been cleared while session "B" holds
\* a completed turn and a call on "A" is still in its unlocked phase.
C31_Witness ==
    /\ last_op.op = "clear_session"
    /\ last_op.session_id = "A"
    /\ last_op.has_value
    /\ "A" \notin DOMAIN sessions_
    /\ "B" \in DOMAIN sessions_
    /\ Len(sessions_["B"].dialog) >= 2
    /\ pc["t1"] = "lock_b"
    /\ call["t1"].session_id = "A"

\* No call is between its phase A and its phase B on session sid.
TurnEnded(sid) == \A t \in Threads : ~InFlight(t, sid)

\* C32: in non-overlapping use with a backend that always succeeds, roles
\* alternate in the stored dialog: after the system message no two adjacent
\* messages have the same role; once the turn has ended every user message
\* is directly followed by an assistant message, the last pair being the
\* call's user message and its reply; trimming keeps this.
C32_RolesAlternate ==
    \A sid \in DOMAIN sessions_ :
        streak[sid] # Broken =>
            LET d == sessions_[sid].dialog
            IN  /\ d[1].role = "system"
                /\ \A i \in 2..(Len(d) - 1) : d[i].role # d[i + 1].role
                /\ TurnEnded(sid) =>
                      \A i \in 2..Len(d) :
                          d[i].role = "user" =>
                             i < Len(d) /\ d[i + 1].role = "assistant"
                /\ \A t \in Threads :
                      (/\ pc[t] = "return"
                       /\ call[t].session_id = sid
                       /\ ~clearedDuring[t]
                       /\ max_history_messages_ >= 1) =>
                          /\ Len(d) >= 3
                          /\ d[Len(d) - 1] =
                                ChatMessage("user", call[t].user_message)
                          /\ Last(d) = ChatMessage("assistant", response[t])

\* C32 witness: a turn has ended on a session whose trimmed dialog starts,
\* after the system message, with an assistant message.
C32_Witness ==
    /\ "A" \in DOMAIN sessions_
    /\ streak["A"] # Broken
    /\ pc["t1"] = "return"
    /\ ~clearedDuring["t1"]
    /\ Len(sessions_["A"].dialog) >= 4
    /\ sessions_["A"].dialog[2].role = "assistant"
    /\ Last(sessions_["A"].dialog).role = "assistant"

\* C33: all request handlers share one session map: get_session_manager
\* returns the same SessionManager instance on every call for the life of
\* the process, also when the first calls come from concurrent threads and
\* init_llm_service has not run; the instance a handler was given is the
\* one g_session_manager still owns.
C33_OneSessionManager ==
    \A t, o \in Threads :
        accessor[t].ref # nullptr =>
            /\ accessor[t].ref = g_session_manager
            /\ accessor[o].ref # nullptr => accessor[o].ref = accessor[t].ref

\* The answer of the session streaming endpoint to the request thread t
\* has handled.
StreamAnswer(t) ==
    session_chat_stream_response(call[t].session_id, chunks[t])

MustBeRejected(req) ==
    req.auth # "valid" \/ req.session_id = "" \/ req.message = ""

\* C35: a session chat request that is rejected at the boundary (missing
\* or invalid credentials: 401; empty session_id or empty message: 400)
\* never reaches the SessionManager: no call starts, no session is created,
\* no message is appended and no upstream request is sent; the store is
\* unchanged, and no call ever carries an empty session_id or message.
C35_RejectedNeverReachesManager ==
    [][/\ \A t \in Threads, st \in BOOLEAN :
            \A req \in Requests(UserMessageOf[ncalls + 1]) :
                (MustBeRejected(req) /\ SessionChat(t, req, st)) =>
                    /\ last_op'.op = IF req.auth # "valid"
                                     THEN "rejected_401" ELSE "rejected_400"
                    /\ UNCHANGED <<sessions_, sessions_mutex_, pc, call,
                                   messages, requests, ncalls>>
       /\ \A t \in Threads :
            pc'[t] # "idle" =>
                call'[t].session_id # "" /\ call'[t].user_message # ""
       /\ "" \notin DOMAIN sessions_'
      ]_vars

\* C35 witness: a request without valid credentials has just been rejected
\* while a session is stored and another request is at its backend call.
C35_Witness ==
    /\ last_op.op = "rejected_401"
    /\ "A" \in DOMAIN sessions_
    /\ Len(sessions_["A"].dialog) >= 2
    /\ \E t \in Threads : pc[t] = "backend"

====
